---- MODULE Spec2Model ----
(***************************************************************************)
(* A model of the S3 Object Lambda function of this repository:            *)
(*   - the dispatcher `handler` (s3objectlambda.ts),                       *)
(*   - the ListObjectsHandler class (second half of request/utils.ts),     *)
(*   - the request utilities getRange, getPartNumber, getQueryParam,       *)
(*     applyRangeOrPartNumber(Headers), removeSignedRequestHeaders and     *)
(*     makeS3Request (first half of request/utils.ts).                     *)
(*                                                                         *)
(* JavaScript strings whose characters matter (header names, query         *)
(* parameters, prefixes, object keys) are tuples of one-character strings, *)
(* so that toLowerCase, startsWith and endsWith are computed and not       *)
(* assumed.  Two specifications are given: Spec runs one invocation of     *)
(* `handler`; SpecUtils applies the request utilities to a user request.   *)
(***************************************************************************)
EXTENDS Integers, Sequences, FiniteSets, TLC

VARIABLES
    \* ---- one invocation of handler (Spec) ----
    pc,              \* position of the invocation in the handler code
    event,           \* the S3ObjectLambdaEvent, fixed for the invocation
    transform,       \* behaviour of the transform function injected into the List handler
    invoked,         \* handlers the dispatcher called, in order
    originFetch,     \* statuses returned by fetches of inputS3Url, in order
    cloudflareCalls, \* number of ListObjectsV2Command sent to the secondary store
    transformCalls,  \* arguments handed to transformObject, in order
    storeResult,     \* list result obtained: the ListObjectsV2Command output, or the parsed body
    xmlListObject,   \* what createListObjectsXmlResponse returned
    result,          \* value the promise returned by handler resolved with
    thrown,          \* "" or the error the promise returned by handler rejected with
    \* ---- request utilities (SpecUtils) ----
    userRequest,     \* the UserRequest: headers object and the query of its url
    call             \* the utility applied to userRequest and what it produced

vars == <<pc, event, transform, invoked, originFetch, cloudflareCalls,
          transformCalls, storeResult, xmlListObject, result, thrown, userRequest, call>>

handlerVars == <<pc, event, transform, invoked, originFetch, cloudflareCalls,
                 transformCalls, storeResult, xmlListObject, result, thrown>>

utilVars == <<userRequest, call>>

(***************************************************************************)
(* Bounds of the model.                                                    *)
(***************************************************************************)
MaxContents == 2     \* longest Contents list a store returns
MaxHeaders == 2      \* most header entries of a user request
MaxQuery == 2        \* most query parameters of a user request url

(***************************************************************************)
(* JavaScript values.                                                      *)
(***************************************************************************)
null == <<"null">>
undefined == <<"undefined">>

UpperToLower ==
    [c \in {"B", "H", "O", "S", "T", "R", "A", "N", "G", "E", "V", "P"} |->
        CASE c = "B" -> "b" [] c = "H" -> "h" [] c = "O" -> "o" [] c = "S" -> "s"
          [] c = "T" -> "t" [] c = "R" -> "r" [] c = "A" -> "a" [] c = "N" -> "n"
          [] c = "G" -> "g" [] c = "E" -> "e" [] c = "V" -> "v" [] c = "P" -> "p"]

\* String.prototype.toLowerCase
toLowerCase(s) ==
    [i \in DOMAIN s |-> IF s[i] \in DOMAIN UpperToLower THEN UpperToLower[s[i]] ELSE s[i]]

\* String.prototype.startsWith
startsWith(s, p) == Len(s) >= Len(p) /\ SubSeq(s, 1, Len(p)) = p

\* String.prototype.endsWith
endsWith(s, p) == Len(s) >= Len(p) /\ SubSeq(s, Len(s) - Len(p) + 1, Len(s)) = p

\* All sequences over S of length at most n
SeqUpTo(S, n) == UNION {[1..k -> S] : k \in 0..n}

(***************************************************************************)
(* Values of the List handler.                                             *)
(***************************************************************************)
ContextFields ==
    {"getObjectContext", "headObjectContext", "listObjectsContext", "listObjectsV2Context"}

VERIFY_ == <<"v", "e", "r", "i", "f", "y", "_">>

\* Values of the 'prefix' query parameter of inputS3Url (null: no such parameter)
Prefixes ==
    { null, <<>>, <<"a", "/">>, VERIFY_, VERIFY_ \o <<"a">>,
      <<"v", "e", "r", "i", "f", "y">>, <<"V">> \o Tail(VERIFY_) }

Events ==
    [ fields : SUBSET ContextFields,   \* context fields present in the event
      urlValid : BOOLEAN,              \* whether inputS3Url decodes and parses as a URL
      prefix : Prefixes ]

\* What the injected transform function does with its argument
TransformKinds == {"identity", "dropFirst", "throws"}

Statuses == {200, 403, 404}

\* Entries of a Contents list as a store returns them (Key may be missing in an SDK response)
ObjectKeys == {<<"a", "/">>, <<"b">>, undefined}
ContentEntries == [Key : ObjectKeys, Size : {0, 1}]

\* A list result of a store: Contents is a list of entries, or the property is absent
\* (of the entries, Key and Size are kept: the fields the handler reads)
ListOutputs ==
    {[MaxKeys |-> 0, Contents |-> c] : c \in SeqUpTo(ContentEntries, MaxContents)}
        \cup {[MaxKeys |-> 0]}

\* Messages of the errors the collaborators throw
ErrorMessages == {"boom", ""}

\* null where an object is expected
nullObject == [type |-> "null"]
NullResult == nullObject
Pending == [type |-> "pending"]
HeadResult == [type |-> "head"]

(***************************************************************************)
(* Collaborators of the List handler that live outside the modelled files. *)
(***************************************************************************)
\* ListObjectsXmlTransformer.createListObjectsJsonResponse: the parsed list
\* object, or null when the body is not well-formed XML
createListObjectsJsonResponse(body) ==
    IF body.wellFormed THEN body.listObject ELSE nullObject

\* ListObjectsXmlTransformer.createListObjectsXmlResponse: the XML of the
\* object, or null when the serializer gives up
createListObjectsXmlResponse(objectResponse, serializes) ==
    IF serializes THEN [xml |-> objectResponse] ELSE nullObject

\* responseForS3Errors: the error response carrying the upstream status
responseForS3Errors(status) ==
    [statusCode |-> status, errorMessage |-> "upstream error"]

\* errorResponse(requestContext, ErrorCode.NO_SUCH_KEY, message)
errorResponse(message) ==
    [statusCode |-> 404, errorMessage |-> message]

\* The transform function handed to the ListObjectsHandler constructor
transformObject(kind, listObject) ==
    IF kind = "dropFirst" /\ "Contents" \in DOMAIN listObject /\ listObject.Contents # <<>>
    THEN [listObject EXCEPT !.Contents = Tail(@)]
    ELSE listObject

(***************************************************************************)
(* s3objectlambda.ts: handler                                              *)
(***************************************************************************)
\* route with the ListObjectsV2 branch constructing the handler with the V1 transform
route_V2UsesV1(ev) ==
    IF "getObjectContext" \in ev.fields THEN [handler |-> "get", transformObject |-> "none"]
    ELSE IF "headObjectContext" \in ev.fields THEN [handler |-> "head", transformObject |-> "none"]
    ELSE IF "listObjectsContext" \in ev.fields \/ "listObjectsV2Context" \in ev.fields
         THEN [handler |-> "list", transformObject |-> "transformListObjectsV1"]
    ELSE [handler |-> "none", transformObject |-> "none"]

\* The if / else-if chain on the context fields of the event
route(ev) ==
    IF "getObjectContext" \in ev.fields THEN [handler |-> "get", transformObject |-> "none"]
    ELSE IF "headObjectContext" \in ev.fields THEN [handler |-> "head", transformObject |-> "none"]
    ELSE IF "listObjectsContext" \in ev.fields
         THEN [handler |-> "list", transformObject |-> "transformListObjectsV1"]
    ELSE IF "listObjectsV2Context" \in ev.fields
         THEN [handler |-> "list", transformObject |-> "transformListObjectsV2"]
    ELSE [handler |-> "none", transformObject |-> "none"]

handler ==
    /\ pc = "start"
    /\ LET r == route(event) IN
         /\ invoked' = IF r.handler = "none" THEN invoked ELSE Append(invoked, r)
         /\ pc' = CASE r.handler = "get" -> "await_get"
                    [] r.handler = "head" -> "await_head"
                    [] r.handler = "list" -> "list_entry"
                    [] OTHER -> "done"
         /\ result' = IF r.handler = "none" THEN NullResult ELSE result
    /\ UNCHANGED <<event, transform, originFetch, cloudflareCalls, transformCalls,
                   storeResult, xmlListObject, thrown>>
    /\ UNCHANGED utilVars

\* await handleGetObjectRequest(...); return null
handleGetObjectRequestSettles ==
    /\ pc = "await_get"
    /\ pc' = "done"
    /\ \E fulfilled \in BOOLEAN :
         IF fulfilled
         THEN result' = NullResult /\ thrown' = thrown
         ELSE result' = result /\ thrown' = "get handler rejected"
    /\ UNCHANGED <<event, transform, invoked, originFetch, cloudflareCalls, transformCalls,
                   storeResult, xmlListObject>>
    /\ UNCHANGED utilVars

\* return handleHeadObjectRequest(...)
handleHeadObjectRequestSettles ==
    /\ pc = "await_head"
    /\ pc' = "done"
    /\ \E fulfilled \in BOOLEAN :
         IF fulfilled
         THEN result' = HeadResult /\ thrown' = thrown
         ELSE result' = result /\ thrown' = "head handler rejected"
    /\ UNCHANGED <<event, transform, invoked, originFetch, cloudflareCalls, transformCalls,
                   storeResult, xmlListObject>>
    /\ UNCHANGED utilVars

(***************************************************************************)
(* ListObjectsHandler                                                      *)
(***************************************************************************)
\* isVerifyPrefix comparing the whole prefix with the sentinel
isVerifyPrefix_equals(prefix) == prefix = VERIFY_

\* url.searchParams.get('prefix')?.startsWith('verify_')
isVerifyPrefix(prefix) == prefix # null /\ startsWith(prefix, VERIFY_)

\* handleListObjectsRequest up to its first await
handleListObjectsRequest ==
    /\ pc = "list_entry"
    /\ IF ~event.urlValid
       THEN /\ thrown' = "TypeError: Invalid URL"
            /\ pc' = "done"
       ELSE /\ thrown' = thrown
            /\ pc' = IF isVerifyPrefix(event.prefix) THEN "original_fetch" ELSE "fetch"
    /\ UNCHANGED <<event, transform, invoked, originFetch, cloudflareCalls,
                   transformCalls, storeResult, xmlListObject, result>>
    /\ UNCHANGED utilVars

\* ListObjectsHandler.writeResponse
writeResponse(objectResponse, serializes) ==
    LET xml == createListObjectsXmlResponse(objectResponse, serializes) IN
    IF xml = nullObject
    THEN [statusCode |-> 500,
          errorMessage |-> "The Lambda function failed to transform the result to XML"]
    ELSE [statusCode |-> 200, listResultXml |-> xml]

\* The filter applied to the Contents of the secondary store's answer
isDirectoryMarker(x) == x.Size = 0 /\ endsWith(x.Key, <<"/">>)

\* The objectResponse built from the ListObjectsV2Command output
buildObjectResponse(response) ==
    IF "Contents" \notin DOMAIN response
    THEN [MaxKeys |-> response.MaxKeys]
    ELSE [MaxKeys |-> response.MaxKeys,
          Contents |->
            SelectSeq(
               [i \in DOMAIN response.Contents |->
                   [response.Contents[i] EXCEPT
                       !.Key = IF @ = undefined THEN <<>> ELSE @]],
               LAMBDA x : ~isDirectoryMarker(x))]

\* await makeS3RequestOriginal(...) and await originalResponse.arrayBuffer() (not in a try)
originalResponseSettles ==
    /\ pc = "fetch"
    /\ \/ /\ thrown' = "FetchError"
          /\ pc' = "done"
          /\ UNCHANGED <<originFetch, cloudflareCalls>>
       \/ \E status \in Statuses :
          /\ originFetch' = Append(originFetch, status)
          /\ cloudflareCalls' = cloudflareCalls + 1
          /\ pc' = "cloudflare_send"
          /\ thrown' = thrown
    /\ UNCHANGED <<event, transform, invoked, transformCalls, storeResult,
                   xmlListObject, result>>
    /\ UNCHANGED utilVars

\* The try block once cloudflare.send settles, and its catch
cloudflareSendSettles ==
    /\ pc = "cloudflare_send"
    /\ pc' = "done"
    /\ \/ \E response \in ListOutputs, serializes \in BOOLEAN :
          LET objectResponse == buildObjectResponse(response) IN
          /\ storeResult' = response
          /\ transformCalls' = Append(transformCalls, objectResponse)
          /\ IF transform = "throws"
             THEN /\ \E m \in ErrorMessages : result' = [statusCode |-> 500, errorMessage |-> m]
                  /\ UNCHANGED xmlListObject
             ELSE LET transformedObject == transformObject(transform, objectResponse) IN
                  /\ xmlListObject' = createListObjectsXmlResponse(transformedObject, serializes)
                  /\ result' = writeResponse(transformedObject, serializes)
       \/ \E m \in ErrorMessages :   \* cloudflare.send rejected
          /\ result' = [statusCode |-> 500, errorMessage |-> m]
          /\ UNCHANGED <<transformCalls, storeResult, xmlListObject>>
    /\ UNCHANGED <<event, transform, invoked, originFetch, cloudflareCalls, thrown>>
    /\ UNCHANGED utilVars

\* handleListObjectsRequestOriginal once its fetch settles
handleListObjectsRequestOriginal ==
    /\ pc = "original_fetch"
    /\ pc' = "done"
    /\ \/ /\ thrown' = "FetchError"
          /\ UNCHANGED <<originFetch, transformCalls, storeResult, xmlListObject, result>>
       \/ \E status \in Statuses :
          /\ status >= 400
          /\ originFetch' = Append(originFetch, status)
          /\ result' = responseForS3Errors(status)
          /\ UNCHANGED <<transformCalls, storeResult, xmlListObject, thrown>>
       \/ \E status \in Statuses, wellFormed \in BOOLEAN,
             listObject \in ListOutputs, serializes \in BOOLEAN :
          LET parsedObject ==
                createListObjectsJsonResponse([wellFormed |-> wellFormed,
                                               listObject |-> listObject])
          IN
          /\ status < 400
          /\ originFetch' = Append(originFetch, status)
          /\ storeResult' = parsedObject
          /\ IF parsedObject = nullObject
             THEN /\ result' = errorResponse("Requested key does not exist")
                  /\ UNCHANGED <<transformCalls, xmlListObject, thrown>>
             ELSE /\ transformCalls' = Append(transformCalls, parsedObject)
                  /\ IF transform = "throws"
                     THEN /\ thrown' = "transformObject threw"
                          /\ UNCHANGED <<result, xmlListObject>>
                     ELSE LET transformedObject == transformObject(transform, parsedObject) IN
                          /\ xmlListObject' =
                                createListObjectsXmlResponse(transformedObject, serializes)
                          /\ result' = writeResponse(transformedObject, serializes)
                          /\ UNCHANGED thrown
    /\ UNCHANGED <<event, transform, invoked, cloudflareCalls>>
    /\ UNCHANGED utilVars

(***************************************************************************)
(* Request utilities: values.                                              *)
(***************************************************************************)
\* Query parameter names (request/utils.ts)
RANGE == <<"R", "a", "n", "g", "e">>
PART_NUMBER == <<"p", "a", "r", "t", "N", "u", "m", "b", "e", "r">>

HOST == <<"H", "o", "s", "t">>

\* Names of the headers a user request may carry
HeaderNames ==
    { RANGE, toLowerCase(RANGE), HOST, <<"H", "O", "S", "T">>, toLowerCase(PART_NUMBER) }

\* Names of the query parameters the url of a user request may carry
QueryNames == { RANGE, PART_NUMBER }

\* Values of headers and query parameters
Values == { <<"B">>, <<"2">> }

\* Object.entries(userRequest.headers): the keys of an object are distinct
HeaderObjects ==
    { h \in SeqUpTo([k : HeaderNames, v : Values], MaxHeaders) :
        \A i, j \in DOMAIN h : i # j => h[i].k # h[j].k }

\* The search parameters of userRequest.url, in order (a name may repeat)
Queries == SeqUpTo([k : QueryNames, v : Values], MaxQuery)

UserRequests == [headers : HeaderObjects, query : Queries]

EmptyRequest == [headers |-> <<>>, query |-> <<>>]
NoCall == [op |-> "none"]

\* Paths of the url handed to makeS3Request
Paths == { <<"/">>, <<"/", "k">> }

(***************************************************************************)
(* JavaScript helpers of the request utilities.                            *)
(***************************************************************************)
\* Map.prototype.has on a Map built from entries
MapHas(entries, key) == \E i \in DOMAIN entries : entries[i].k = key

\* Map.prototype.get on a Map built from entries: a later entry replaces an
\* earlier one with the same key
MapGet(entries, key) ==
    IF MapHas(entries, key)
    THEN LET last == CHOOSE i \in DOMAIN entries :
                        /\ entries[i].k = key
                        /\ \A j \in DOMAIN entries : entries[j].k = key => j <= i
         IN entries[last].v
    ELSE undefined

\* URLSearchParams.prototype.get: the first value of the name, or null
SearchParamsGet(query, name) ==
    IF \E i \in DOMAIN query : query[i].k = name
    THEN LET first == CHOOSE i \in DOMAIN query :
                         /\ query[i].k = name
                         /\ \A j \in DOMAIN query : query[j].k = name => i <= j
         IN query[first].v
    ELSE null

\* Property read headers.name on a plain object
Prop(entries, name) == MapGet(entries, name)

\* JavaScript truthiness of a string-or-undefined
Truthy(v) == v # undefined /\ v # null /\ v # <<>>

DigitValue ==
    [c \in {"0", "1", "2", "3", "4", "5", "6", "7", "8", "9"} |->
        CASE c = "0" -> 0 [] c = "1" -> 1 [] c = "2" -> 2 [] c = "3" -> 3 [] c = "4" -> 4
          [] c = "5" -> 5 [] c = "6" -> 6 [] c = "7" -> 7 [] c = "8" -> 8 [] c = "9" -> 9]

NaN == [NaN |-> TRUE]

RECURSIVE ParseDigits(_, _, _)
ParseDigits(s, i, acc) ==
    IF i <= Len(s) /\ s[i] \in DOMAIN DigitValue
    THEN ParseDigits(s, i + 1, acc * 10 + DigitValue[s[i]])
    ELSE acc

\* parseInt of a string: its leading decimal digits, or NaN
parseInt(s) ==
    IF Len(s) > 0 /\ s[1] \in DOMAIN DigitValue
    THEN [number |-> ParseDigits(s, 1, 0)]
    ELSE NaN

(***************************************************************************)
(* request/utils.ts                                                        *)
(***************************************************************************)
\* getQueryParam that looks the name up as given
getQueryParam_nameAsGiven(url, name) ==
    LET lowered == [i \in DOMAIN url.query |->
                      [k |-> toLowerCase(url.query[i].k), v |-> toLowerCase(url.query[i].v)]]
    IN SearchParamsGet(lowered, name)

\* getQueryParam: the url and the name are lower-cased before the lookup
getQueryParam(url, name) ==
    LET lowered == [i \in DOMAIN url.query |->
                      [k |-> toLowerCase(url.query[i].k), v |-> toLowerCase(url.query[i].v)]]
    IN SearchParamsGet(lowered, toLowerCase(name))

getPartNumber(request) == getQueryParam(request, PART_NUMBER)

\* getRange reading the header under the name 'range' as spelled by the caller
getRange_exactHeaderName(request) ==
    IF MapHas(request.headers, toLowerCase(RANGE))
    THEN MapGet(request.headers, toLowerCase(RANGE))
    ELSE getQueryParam(request, RANGE)

getRange(request) ==
    LET headersMap == [i \in DOMAIN request.headers |->
                          [k |-> toLowerCase(request.headers[i].k), v |-> request.headers[i].v]]
    IN IF MapHas(headersMap, toLowerCase(RANGE))
       THEN MapGet(headersMap, toLowerCase(RANGE))
       ELSE getQueryParam(request, RANGE)

\* The mappers of response/range_mapper and response/part_number_mapper, applied
mapRange(range, transformed) ==
    [mapper |-> "mapRange", selector |-> range, input |-> transformed]
mapPartNumber(partNumber, transformed) ==
    [mapper |-> "mapPartNumber", selector |-> partNumber, input |-> transformed]
mapRangeHead(range, transformed) ==
    [mapper |-> "mapRangeHead", selector |-> range, input |-> transformed]
mapPartNumberHead(partNumber, transformed) ==
    [mapper |-> "mapPartNumberHead", selector |-> partNumber, input |-> transformed]

\* applyRangeOrPartNumber testing the part number before the range
applyRangeOrPartNumber_partFirst(transformedObject, request) ==
    LET range == getRange(request)
        partNumber == getPartNumber(request)
    IN IF partNumber # null THEN mapPartNumber(partNumber, transformedObject)
       ELSE IF range # null THEN mapRange(range, transformedObject)
       ELSE [object |-> transformedObject, hasError |-> FALSE]

applyRangeOrPartNumber(transformedObject, request) ==
    LET range == getRange(request)
        partNumber == getPartNumber(request)
    IN IF range # null THEN mapRange(range, transformedObject)
       ELSE IF partNumber # null THEN mapPartNumber(partNumber, transformedObject)
       ELSE [object |-> transformedObject, hasError |-> FALSE]

applyRangeOrPartNumberHeaders(transformedHeaders, request) ==
    LET range == getRange(request)
        partNumber == getPartNumber(request)
    IN IF range # null THEN mapRangeHead(range, transformedHeaders)
       ELSE IF partNumber # null THEN mapPartNumberHead(partNumber, transformedHeaders)
       ELSE [headers |-> transformedHeaders, hasError |-> FALSE]

\* The header names removeSignedRequestHeaders leaves out (those of the model's alphabet)
headersToBePresigned == { HOST, toLowerCase(HOST) }

removeSignedRequestHeaders(headersObj) ==
    SelectSeq(headersObj, LAMBDA e : e.k \notin headersToBePresigned)

\* The input of the GetObjectCommand / HeadObjectCommand handed to getSignedUrl
presignedCommand(method, key, headers) ==
    IF method = "GET"
    THEN [command |-> "GetObjectCommand",
          input |-> <<[k |-> "Key", v |-> key]>>
                    \o (IF Truthy(Prop(headers, toLowerCase(RANGE)))
                        THEN <<[k |-> "Range", v |-> Prop(headers, toLowerCase(RANGE))]>>
                        ELSE <<>>)
                    \o (IF Truthy(Prop(headers, toLowerCase(PART_NUMBER)))
                        THEN <<[k |-> "PartNumber",
                                v |-> parseInt(Prop(headers, toLowerCase(PART_NUMBER)))]>>
                        ELSE <<>>)]
    ELSE [command |-> "HeadObjectCommand", input |-> <<[k |-> "Key", v |-> key]>>]

\* The headers of the fetch of the signed url
fetchHeaders(headers) ==
    (IF Truthy(Prop(headers, toLowerCase(RANGE)))
     THEN <<[k |-> toLowerCase(RANGE), v |-> Prop(headers, toLowerCase(RANGE))]>>
     ELSE <<>>)
    \o (IF Truthy(Prop(headers, toLowerCase(PART_NUMBER)))
        THEN <<[k |-> toLowerCase(PART_NUMBER), v |-> Prop(headers, toLowerCase(PART_NUMBER))]>>
        ELSE <<>>)

(***************************************************************************)
(* The request utilities applied to a user request.                        *)
(***************************************************************************)
GetRange ==
    /\ call = NoCall
    /\ call' = [op |-> "getRange", result |-> getRange(userRequest)]
    /\ UNCHANGED userRequest
    /\ UNCHANGED handlerVars

GetPartNumber ==
    /\ call = NoCall
    /\ call' = [op |-> "getPartNumber", result |-> getPartNumber(userRequest)]
    /\ UNCHANGED userRequest
    /\ UNCHANGED handlerVars

ApplyRangeOrPartNumber ==
    /\ call = NoCall
    /\ call' = [op |-> "applyRangeOrPartNumber",
                input |-> "buffer",
                result |-> applyRangeOrPartNumber("buffer", userRequest)]
    /\ UNCHANGED userRequest
    /\ UNCHANGED handlerVars

ApplyRangeOrPartNumberHeaders ==
    /\ call = NoCall
    /\ call' = [op |-> "applyRangeOrPartNumberHeaders",
                input |-> "headers",
                result |-> applyRangeOrPartNumberHeaders("headers", userRequest)]
    /\ UNCHANGED userRequest
    /\ UNCHANGED handlerVars

\* makeS3Request up to await getSignedUrl(...)
makeS3Request ==
    /\ call = NoCall
    /\ \E method \in {"GET", "HEAD"}, path \in Paths :
         LET key == Tail(path)
             headers == removeSignedRequestHeaders(userRequest.headers)
         IN call' = [op |-> "makeS3Request",
                     stage |-> "signing",
                     method |-> method,
                     headers |-> headers,
                     presigned |-> presignedCommand(method, key, headers),
                     fetched |-> <<>>]
    /\ UNCHANGED userRequest
    /\ UNCHANGED handlerVars

\* getSignedUrl settles; when it resolves the signed url is fetched
getSignedUrlSettles ==
    /\ call.op = "makeS3Request"
    /\ call.stage = "signing"
    /\ \/ call' = [call EXCEPT !.stage = "rejected"]
       \/ call' = [call EXCEPT !.stage = "fetching",
                               !.fetched = <<[method |-> call.method,
                                              headers |-> fetchHeaders(call.headers)]>>]
    /\ UNCHANGED userRequest
    /\ UNCHANGED handlerVars

InitUtils ==
    /\ pc = "idle"
    /\ event = [fields |-> {}, urlValid |-> TRUE, prefix |-> null]
    /\ transform = "identity"
    /\ invoked = <<>>
    /\ originFetch = <<>>
    /\ cloudflareCalls = 0
    /\ transformCalls = <<>>
    /\ storeResult = Pending
    /\ xmlListObject = Pending
    /\ result = Pending
    /\ thrown = ""
    /\ userRequest \in UserRequests
    /\ call = NoCall

NextUtils ==
    \/ GetRange
    \/ GetPartNumber
    \/ ApplyRangeOrPartNumber
    \/ ApplyRangeOrPartNumberHeaders
    \/ makeS3Request
    \/ getSignedUrlSettles

SpecUtils == InitUtils /\ [][NextUtils]_vars

(***************************************************************************)
(* One invocation of handler.                                              *)
(***************************************************************************)
Init ==
    /\ pc = "start"
    /\ event \in Events
    /\ transform \in TransformKinds
    /\ invoked = <<>>
    /\ originFetch = <<>>
    /\ cloudflareCalls = 0
    /\ transformCalls = <<>>
    /\ storeResult = Pending
    /\ xmlListObject = Pending
    /\ result = Pending
    /\ thrown = ""
    /\ userRequest = EmptyRequest
    /\ call = NoCall

Next ==
    \/ handler
    \/ handleGetObjectRequestSettles
    \/ handleHeadObjectRequestSettles
    \/ handleListObjectsRequest
    \/ originalResponseSettles
    \/ cloudflareSendSettles
    \/ handleListObjectsRequestOriginal

Spec == Init /\ [][Next]_vars

(***************************************************************************)
(* Properties of one invocation of handler (checked under Spec).           *)
(***************************************************************************)
Done == pc = "done"

\* The event has exactly one context field, and it is a list context
IsListInvocation ==
    event.fields \in {{"listObjectsContext"}, {"listObjectsV2Context"}}

\* The 'prefix' query parameter of inputS3Url starts with the sentinel 'verify_'
SentinelPrefix ==
    /\ event.prefix # null
    /\ Len(event.prefix) >= 7
    /\ SubSeq(event.prefix, 1, 7) = <<"v", "e", "r", "i", "f", "y", "_">>

\* The handler and transform the dispatcher must pick for a context field
HandlerFor(field) ==
    CASE field = "getObjectContext" -> [handler |-> "get", transformObject |-> "none"]
      [] field = "headObjectContext" -> [handler |-> "head", transformObject |-> "none"]
      [] field = "listObjectsContext" ->
            [handler |-> "list", transformObject |-> "transformListObjectsV1"]
      [] field = "listObjectsV2Context" ->
            [handler |-> "list", transformObject |-> "transformListObjectsV2"]

\* C1: every invocation calls at most one handler; once dispatched, an event
\* with one context field has called exactly the handler of that field (the
\* List handler with the V1 transform for listObjectsContext and with the V2
\* transform for listObjectsV2Context), an event with several fields has
\* called exactly one handler, of one of its fields, and an event with none
\* of the four fields has called no handler and returned null.
C1_DispatchExactlyOne ==
    /\ Len(invoked) <= 1
    /\ pc = "start" => invoked = <<>>
    /\ pc # "start" =>
         /\ \A f \in ContextFields : event.fields = {f} => invoked = <<HandlerFor(f)>>
         /\ event.fields # {} =>
               /\ Len(invoked) = 1
               /\ \E f \in event.fields : invoked[1] = HandlerFor(f)
         /\ event.fields = {} =>
               /\ invoked = <<>>
               /\ Done
               /\ result = NullResult
               /\ thrown = ""
    /\ transformCalls # <<>> \/ originFetch # <<>> \/ cloudflareCalls > 0 =>
         /\ Len(invoked) = 1
         /\ invoked[1].handler = "list"

\* C1 witness: a ListObjectsV2 event was dispatched to the List handler with the V2 transform
C1_Witness ==
    /\ Done
    /\ event.fields = {"listObjectsV2Context"}
    /\ invoked = <<[handler |-> "list", transformObject |-> "transformListObjectsV2"]>>
    /\ transformCalls # <<>>

\* A well-formed list response: {statusCode, listResultXml} or {statusCode, errorMessage}
WellFormedListResponse(r) ==
    \/ DOMAIN r = {"statusCode", "listResultXml"}
    \/ DOMAIN r = {"statusCode", "errorMessage"}

\* C2: every list invocation ends with a well-formed response returned from
\* handler; no exception or rejected promise escapes.
C2_ListAlwaysResponds ==
    IsListInvocation /\ Done => thrown = "" /\ WellFormedListResponse(result)

\* C3, as claimed: with a sentinel prefix the transform function is never
\* invoked, and a 200 response is the serialization of the parsed original.
C3_BypassSkipsTransform ==
    IsListInvocation /\ SentinelPrefix =>
        /\ transformCalls = <<>>
        /\ Done /\ "listResultXml" \in DOMAIN result =>
              result.listResultXml = [xml |-> storeResult]

\* C3, amended: with a sentinel prefix the secondary store is never queried;
\* when the fetch succeeded and the body parsed, the transform function has
\* been invoked exactly once, on the parsed original, and a 200 response is
\* the serialization of what the transform function returned.
C3_BypassTransformsParsedOriginal ==
    IsListInvocation /\ SentinelPrefix =>
        /\ cloudflareCalls = 0
        /\ pc \notin {"fetch", "cloudflare_send"}
        /\ Done /\ originFetch # <<>> /\ originFetch[1] < 400 /\ storeResult # nullObject =>
              /\ transformCalls = <<storeResult>>
              /\ thrown = "" =>
                    /\ WellFormedListResponse(result)
                    /\ result.statusCode = 200 =>
                          result.listResultXml =
                              [xml |-> transformObject(transform, storeResult)]

\* C3 witness: a bypass invocation whose transform changed the parsed original
C3_Witness ==
    /\ IsListInvocation /\ SentinelPrefix /\ Done
    /\ transform = "dropFirst"
    /\ transformCalls = <<storeResult>>
    /\ "listResultXml" \in DOMAIN result
    /\ result.listResultXml # [xml |-> storeResult]

\* C4: on both list paths, a fetch of inputS3Url that returned a status >= 400
\* means no transform call and the error response of that upstream response.
C4_UpstreamErrorForwarded ==
    IsListInvocation /\ Done /\ originFetch # <<>> /\ originFetch[1] >= 400 =>
        /\ transformCalls = <<>>
        /\ result = responseForS3Errors(originFetch[1])
        /\ result.statusCode # 200

\* A Key, with a missing Key read as the empty string
KeyOrEmpty(k) == IF k = undefined THEN <<>> ELSE k

\* C5: the list object handed to the transform function holds no entry with
\* Size 0 and a Key ending in '/', and holds the other entries of the store's
\* result in their original order.
C5_NoDirectoryMarkersBeforeTransform ==
    \A i \in DOMAIN transformCalls :
        "Contents" \in DOMAIN transformCalls[i] =>
            /\ \A j \in DOMAIN transformCalls[i].Contents :
                  LET x == transformCalls[i].Contents[j] IN
                  ~(x.Size = 0 /\ Len(x.Key) > 0 /\ x.Key[Len(x.Key)] = "/")
            /\ "Contents" \in DOMAIN storeResult
            /\ LET kept == SelectSeq(storeResult.Contents,
                                     LAMBDA x : ~(x.Size = 0 /\ x.Key = <<"a", "/">>))
               IN /\ Len(transformCalls[i].Contents) = Len(kept)
                  /\ \A j \in DOMAIN kept :
                        /\ transformCalls[i].Contents[j].Size = kept[j].Size
                        /\ KeyOrEmpty(transformCalls[i].Contents[j].Key) =
                              KeyOrEmpty(kept[j].Key)

\* C10: on both list paths a transform function that throws, or a serializer
\* that returns null, ends in {statusCode: 500, errorMessage: non-empty} with
\* nothing thrown, and a 200 response carries the serializer's non-null XML.
C10_TransformFailureIs500 ==
    IsListInvocation /\ Done =>
        /\ (transform = "throws" /\ transformCalls # <<>>) \/ xmlListObject = nullObject =>
              /\ thrown = ""
              /\ DOMAIN result = {"statusCode", "errorMessage"}
              /\ result.statusCode = 500
              /\ result.errorMessage # ""
        /\ "statusCode" \in DOMAIN result /\ result.statusCode = 200 =>
              /\ xmlListObject \notin {nullObject, Pending}
              /\ result.listResultXml = xmlListObject

(***************************************************************************)
(* Properties of the request utilities (checked under SpecUtils).          *)
(***************************************************************************)
LowerRange == <<"r", "a", "n", "g", "e">>
LowerPartNumber == <<"p", "a", "r", "t", "n", "u", "m", "b", "e", "r">>
LowerHost == <<"h", "o", "s", "t">>

\* Values of the headers of the request whose name is `lower` in some letter case
HeaderValues(lower) ==
    { userRequest.headers[i].v :
        i \in { j \in DOMAIN userRequest.headers : toLowerCase(userRequest.headers[j].k) = lower } }

\* Positions of the query parameters of the request whose name is `lower` in some letter case
QueryPositions(lower) ==
    { i \in DOMAIN userRequest.query : toLowerCase(userRequest.query[i].k) = lower }

\* The value of the first query parameter named `lower` in some letter case, as written in the url
FirstQueryValue(lower) ==
    userRequest.query[CHOOSE i \in QueryPositions(lower) :
                          \A j \in QueryPositions(lower) : i <= j].v

\* C7, as claimed: getRange returns the Range header's value when there is
\* one, otherwise the 'range' query parameter, otherwise null.
C7_RangeHeaderThenQueryVerbatim ==
    call.op = "getRange" =>
        IF HeaderValues(LowerRange) # {} THEN call.result \in HeaderValues(LowerRange)
        ELSE IF QueryPositions(LowerRange) # {} THEN call.result = FirstQueryValue(LowerRange)
        ELSE call.result = null

\* C7, amended: getRange returns the Range header's value (name matched in
\* any letter case) when there is one, also when the url has a different
\* 'range' query parameter; otherwise the value of the first 'range' query
\* parameter converted to lower case; otherwise null.
C7_RangeHeaderThenLoweredQuery ==
    call.op = "getRange" =>
        IF HeaderValues(LowerRange) # {} THEN call.result \in HeaderValues(LowerRange)
        ELSE IF QueryPositions(LowerRange) # {}
             THEN call.result = toLowerCase(FirstQueryValue(LowerRange))
        ELSE call.result = null

\* C7 witness: a header spelled 'Range' wins over a different 'range' query parameter
C7_Witness ==
    /\ call.op = "getRange"
    /\ userRequest.headers = <<[k |-> <<"R", "a", "n", "g", "e">>, v |-> <<"2">>]>>
    /\ QueryPositions(LowerRange) # {}
    /\ toLowerCase(FirstQueryValue(LowerRange)) = <<"b">>
    /\ call.result = <<"2">>

\* C8, as claimed: getPartNumber returns the part-number header's value when
\* there is one, and the 'partNumber' query parameter only otherwise.
C8_PartNumberHeaderFirst ==
    call.op = "getPartNumber" =>
        IF HeaderValues(LowerPartNumber) # {}
        THEN call.result \in HeaderValues(LowerPartNumber)
        ELSE IF QueryPositions(LowerPartNumber) # {}
             THEN call.result = toLowerCase(FirstQueryValue(LowerPartNumber))
        ELSE call.result = null

\* C8, amended: getPartNumber reads the url alone: it returns the value of the
\* first 'partNumber' query parameter (name matched in any letter case)
\* converted to lower case, whatever the headers are, and null when the url
\* has no such parameter.
C8_PartNumberFromQueryOnly ==
    call.op = "getPartNumber" =>
        IF QueryPositions(LowerPartNumber) # {}
        THEN call.result = toLowerCase(FirstQueryValue(LowerPartNumber))
        ELSE call.result = null

\* C8 witness: a part-number header is present and the query parameter's value is returned
C8_Witness ==
    /\ call.op = "getPartNumber"
    /\ HeaderValues(LowerPartNumber) = {<<"2">>}
    /\ QueryPositions(LowerPartNumber) # {}
    /\ FirstQueryValue(LowerPartNumber) = <<"B">>
    /\ call.result = <<"b">>

\* A range is present: as a header or as a query parameter, in any letter case
RangePresent == HeaderValues(LowerRange) # {} \/ QueryPositions(LowerRange) # {}

\* A part number is present where getPartNumber looks for it
PartNumberPresent == QueryPositions(LowerPartNumber) # {}

\* C9: applyRangeOrPartNumber and applyRangeOrPartNumberHeaders apply the
\* range mapper alone when a range is present, the part-number mapper alone
\* when a part number is present and no range is, and otherwise return their
\* input unmodified with hasError = FALSE and no errorResponse.
C9_AtMostOneSelector ==
    /\ call.op = "applyRangeOrPartNumber" =>
         IF RangePresent
         THEN /\ call.result.mapper = "mapRange"
              /\ call.result.input = call.input
              /\ call.result.selector \in
                    HeaderValues(LowerRange)
                        \cup { toLowerCase(userRequest.query[i].v) : i \in QueryPositions(LowerRange) }
         ELSE IF PartNumberPresent
         THEN /\ call.result.mapper = "mapPartNumber"
              /\ call.result.input = call.input
              /\ call.result.selector = toLowerCase(FirstQueryValue(LowerPartNumber))
         ELSE call.result = [object |-> call.input, hasError |-> FALSE]
    /\ call.op = "applyRangeOrPartNumberHeaders" =>
         IF RangePresent
         THEN /\ call.result.mapper = "mapRangeHead"
              /\ call.result.input = call.input
         ELSE IF PartNumberPresent
         THEN /\ call.result.mapper = "mapPartNumberHead"
              /\ call.result.input = call.input
              /\ call.result.selector = toLowerCase(FirstQueryValue(LowerPartNumber))
         ELSE call.result = [headers |-> call.input, hasError |-> FALSE]

\* C9 witness: range and part number are both present and the range mapper alone was applied
C9_Witness ==
    /\ call.op = "applyRangeOrPartNumber"
    /\ QueryPositions(LowerRange) # {}
    /\ QueryPositions(LowerPartNumber) # {}
    /\ call.result.mapper = "mapRange"

\* C6: neither the presigned command nor the headers of the fetch carry the
\* user's Host, range or part-number value.
C6_RangeAndPartNumberStripped ==
    call.op = "makeS3Request" =>
        /\ \A i \in DOMAIN call.presigned.input :
              call.presigned.input[i].k \notin {"Range", "PartNumber", "Host"}
        /\ \A f \in DOMAIN call.fetched :
              \A i \in DOMAIN call.fetched[f].headers :
                 toLowerCase(call.fetched[f].headers[i].k)
                    \notin {LowerRange, LowerPartNumber, LowerHost}

====
